---------------------------- MODULE Spec2Model ----------------------------
(***************************************************************************)
(* Model of the sudachi-swift facade (src/rust/src/lib.rs): the Tokenizer  *)
(* constructors, Tokenizer::tokenize run by concurrent callers, and the    *)
(* dictionary-metadata functions.  The sudachi crate itself is an external *)
(* collaborator: its calls are modelled by their signatures (a result or   *)
(* an error carrying a diagnostic), with a small deterministic stand-in    *)
(* analyzer whose output is a function of (dictionary, input, mode).       *)
(***************************************************************************)
EXTENDS Naturals, Integers, Sequences, FiniteSets, TLC

VARIABLES
    npc,        \* position inside Tokenizer::new
    config,     \* the TokenizerConfig argument of Tokenizer::new
    builder,    \* the ConfigBuilder being assembled by Tokenizer::new
    nresult,    \* what Tokenizer::new returned
    libCalls,   \* sudachi calls made by Tokenizer::new, in order
    dicExists,  \* whether a file exists at config.dictionary_path
    tokenizer,  \* the constructed Tokenizer object (its dictionary field)
    tpc,        \* per caller: position inside Tokenizer::tokenize
    targs,      \* per caller: the (text, mode) arguments of the call
    session,    \* per session slot: the StatefulTokenizer of a call
    morphemes,  \* per caller: the local `morphemes` list
    tret,       \* per caller: what tokenize returned
    tcalls,     \* per caller: sudachi calls made by the call, in order
    mcall,      \* arguments of the pending metadata call
    mret        \* what the metadata function returned

vars == <<npc, config, builder, nresult, libCalls, dicExists, tokenizer,
          tpc, targs, session, morphemes, tret, tcalls, mcall, mret>>

newVars == <<npc, config, builder, nresult, libCalls, dicExists>>
tokVars == <<tpc, targs, session, morphemes, tret, tcalls>>
metaVars == <<mcall, mret>>

(***************************************************************************)
(* Option<T> and Result<T, E>.                                             *)
(***************************************************************************)
None == <<>>
Some(x) == <<x>>
IsSome(o) == Len(o) = 1
Unwrap(o) == o[1]

Ok(v) == [ok |-> TRUE, value |-> v]
Err(k, m) == [ok |-> FALSE, kind |-> k, message |-> m]
NoReturn == [ok |-> FALSE, kind |-> "pending", message |-> ""]

(***************************************************************************)
(* Bounds of the model.                                                    *)
(***************************************************************************)
MaxVersionLen == 2   \* longest version string drawn, in characters
MaxPathLen == 3      \* longest generated path, in path tokens
MaxTextLen == 2      \* longest text over the full alphabet, in bytes
MaxLongLen == 5      \* longest single-letter text, in bytes
U32Bits == 2         \* scaled width of the u32 / i32 fields of MorphemeInfo

(***************************************************************************)
(* Dictionary Management (lib.rs 255-314).                                 *)
(***************************************************************************)
DictionaryType == {"Small", "Core", "Full"}

as_str(dict_type) ==
    CASE dict_type = "Small" -> "small"
      [] dict_type = "Core" -> "core"
      [] dict_type = "Full" -> "full"

DICTIONARY_BASE_URL == "https://d2ej7fkh96fzlu.cloudfront.net/sudachidict"

unwrap_or(version, default) == IF IsSome(version) THEN Unwrap(version) ELSE default

dict_name_wrong_order(dict_type, version_str) ==
    "sudachi-dictionary-" \o as_str(dict_type) \o "-" \o version_str

dict_name(dict_type, version_str) ==
    "sudachi-dictionary-" \o version_str \o "-" \o as_str(dict_type)

get_dictionary_download_url(dict_type, version) ==
    LET version_str == unwrap_or(version, "latest")
    IN  DICTIONARY_BASE_URL \o "/" \o dict_name(dict_type, version_str) \o ".zip"

info_table(dict_type) ==
    CASE dict_type = "Small" ->
            [name |-> "small", size_mb |-> 50,
             description |-> "Minimum vocabulary dictionary"]
      [] dict_type = "Core" ->
            [name |-> "core", size_mb |-> 70,
             description |-> "Basic vocabulary dictionary (recommended)"]
      [] dict_type = "Full" ->
            [name |-> "full", size_mb |-> 1000,
             description |-> "Complete vocabulary dictionary"]

get_dictionary_info(dict_type, version) ==
    LET row == info_table(dict_type)
    IN  [name |-> row.name,
         size_mb |-> row.size_mb,
         description |-> row.description,
         download_url |-> get_dictionary_download_url(dict_type, version),
         dic_filename |-> "system_" \o row.name \o ".dic"]

get_all_dictionary_info_drops_version(version) ==
    << get_dictionary_info("Small", version),
       get_dictionary_info("Core", version),
       get_dictionary_info("Full", None) >>

get_all_dictionary_info(version) ==
    << get_dictionary_info("Small", version),
       get_dictionary_info("Core", version),
       get_dictionary_info("Full", version) >>

\* Version strings handed to the metadata functions.
VersionChars == {"2", "0"}

RECURSIVE VersionStrings(_)
VersionStrings(n) ==
    IF n = 0 THEN {""}
    ELSE VersionStrings(n - 1)
         \cup {s \o c : s \in VersionStrings(n - 1), c \in VersionChars}

Versions ==
    {None} \cup {Some(s) : s \in VersionStrings(MaxVersionLen) \cup {"20241021", "latest"}}

NoCall == [fn |-> "none"]

MetaIdle ==
    /\ npc = "unused" /\ config = None /\ builder = None /\ nresult = NoReturn
    /\ libCalls = <<>> /\ dicExists = FALSE /\ tokenizer = None
    /\ tpc = <<>> /\ targs = <<>> /\ session = <<>> /\ morphemes = <<>>
    /\ tret = <<>> /\ tcalls = <<>>

InitMeta ==
    /\ MetaIdle
    /\ mcall \in {[dict_type |-> d, version |-> v] : d \in DictionaryType, v \in Versions}
    /\ mret = NoCall

CallDownloadUrl ==
    /\ mret = NoCall
    /\ mret' = [fn |-> "get_dictionary_download_url",
                value |-> get_dictionary_download_url(mcall.dict_type, mcall.version)]
    /\ UNCHANGED <<newVars, tokenizer, tokVars, mcall>>

CallDictionaryInfo ==
    /\ mret = NoCall
    /\ mret' = [fn |-> "get_dictionary_info",
                value |-> get_dictionary_info(mcall.dict_type, mcall.version)]
    /\ UNCHANGED <<newVars, tokenizer, tokVars, mcall>>

CallAllDictionaryInfo ==
    /\ mret = NoCall
    /\ mret' = [fn |-> "get_all_dictionary_info",
                value |-> get_all_dictionary_info(mcall.version)]
    /\ UNCHANGED <<newVars, tokenizer, tokVars, mcall>>

NextMeta == CallDownloadUrl \/ CallDictionaryInfo \/ CallAllDictionaryInfo

SpecMeta == InitMeta /\ [][NextMeta]_vars


(***************************************************************************)
(* std::path::Path::parent, as Tokenizer::new uses it (lib.rs 149-150).    *)
(* A path is a sequence of tokens: "/" is the separator, "." a dot, any    *)
(* other token a run of ordinary characters.  parent() is the Unix         *)
(* Components iterator run backwards once, then Components::as_path.       *)
(***************************************************************************)
HasPhysicalRoot(p) == Len(p) > 0 /\ p[1] = "/"

\* Components::include_cur_dir: a leading "." of a relative path.
IncludeCurDir(p, root) ==
    /\ ~root
    /\ Len(p) >= 1
    /\ p[1] = "."
    /\ (Len(p) = 1 \/ p[2] = "/")

LenBeforeBody(p, root) ==
    (IF root THEN 1 ELSE 0) + (IF IncludeCurDir(p, root) THEN 1 ELSE 0)

\* rposition of a separator in body (1-based), 0 when there is none.
LastSep(body) ==
    LET idx == {i \in 1..Len(body) : body[i] = "/"}
    IN  IF idx = {} THEN 0 ELSE CHOOSE i \in idx : \A j \in idx : j <= i

ParseSingleComponent(comp) ==
    CASE comp = <<".">> -> "skip"
      [] comp = <<".", ".">> -> "ParentDir"
      [] comp = <<>> -> "skip"
      [] OTHER -> "Normal"

ParseNextComponentBack(p, root) ==
    LET start == LenBeforeBody(p, root)
        body == SubSeq(p, start + 1, Len(p))
        i == LastSep(body)
        comp == IF i = 0 THEN body ELSE SubSeq(body, i + 1, Len(body))
    IN  [size |-> Len(comp) + (IF i = 0 THEN 0 ELSE 1),
         comp |-> ParseSingleComponent(comp)]

\* Components::next_back on a fresh iterator: the last component, the path
\* left in front of it, and the iterator's back state.
RECURSIVE NextBack(_, _)
NextBack(p, root) ==
    IF Len(p) > LenBeforeBody(p, root)
    THEN LET r == ParseNextComponentBack(p, root)
             rest == SubSeq(p, 1, Len(p) - r.size)
         IN  IF r.comp # "skip"
             THEN [comp |-> r.comp, path |-> rest, back |-> "Body"]
             ELSE NextBack(rest, root)
    ELSE IF root
         THEN [comp |-> "RootDir", path |-> SubSeq(p, 1, Len(p) - 1), back |-> "Prefix"]
         ELSE IF IncludeCurDir(p, root)
              THEN [comp |-> "CurDir", path |-> SubSeq(p, 1, Len(p) - 1), back |-> "Prefix"]
              ELSE [comp |-> "end", path |-> p, back |-> "Done"]

\* Components::trim_right: drop trailing separators and "." components.
RECURSIVE TrimRight(_, _)
TrimRight(p, root) ==
    IF Len(p) > LenBeforeBody(p, root)
    THEN LET r == ParseNextComponentBack(p, root)
         IN  IF r.comp # "skip" THEN p
             ELSE TrimRight(SubSeq(p, 1, Len(p) - r.size), root)
    ELSE p

AsPath(nb, root) == IF nb.back = "Body" THEN TrimRight(nb.path, root) ELSE nb.path

Parent(p) ==
    LET root == HasPhysicalRoot(p)
        nb == NextBack(p, root)
    IN  IF nb.comp \in {"Normal", "CurDir", "ParentDir"}
        THEN Some(AsPath(nb, root))
        ELSE None

PathTokens == {"/", ".", "a"}

RECURSIVE PathsUpTo(_)
PathsUpTo(n) ==
    IF n = 0 THEN {<<>>}
    ELSE PathsUpTo(n - 1)
         \cup {Append(p, c) : p \in PathsUpTo(n - 1), c \in PathTokens}

DicPathAB == <<"/", "a", "/", "b", "/", "d.dic">>
CfgPathXY == <<"/", "x", "/", "y", "/", "cfg.json">>
DirAB == <<"/", "a", "/", "b">>
DirXY == <<"/", "x", "/", "y">>

Paths == PathsUpTo(MaxPathLen) \cup {DicPathAB, CfgPathXY}
ResourceDirs == {<<>>, <<"/", "r">>}
UserDicts == {<<"u.dic">>}

(***************************************************************************)
(* The sudachi crate, as far as the facade sees it.  A loaded dictionary   *)
(* is immutable content: which letters it knows, what its unknown-word     *)
(* handling does, and the word() value it reports for unknown words.       *)
(***************************************************************************)
U32Modulus == 2 ^ U32Bits
U32Max == U32Modulus - 1

Alphabet == {"a", "z"}
Vocabularies == {{"a"}}
UnknownPolicies == {"oov", "run_fault", "list_fault"}
OovWords == {0, U32Max}

Dictionaries ==
    [vocab : Vocabularies, onUnknown : UnknownPolicies, oovWord : OovWords]

ConfigDiagnostics == {"io: config not found", "json: syntax error"}
MissingFileDiagnostic == "io: dictionary not found"
CorruptFileDiagnostic == "dictionary: invalid header"

LibCall(fn, ok, msg) == [fn |-> fn, ok |-> ok, msg |-> msg]

\* ConfigBuilder::from_file(path): a base configuration or an error.
FromFileOutcomes ==
    {[ok |-> TRUE, msg |-> ""]} \cup {[ok |-> FALSE, msg |-> m] : m \in ConfigDiagnostics}

\* JapaneseDictionary::from_cfg(cfg): a dictionary or an error; a missing
\* system dictionary file cannot load.
FromCfgOutcomes(exists) ==
    IF exists
    THEN {[ok |-> TRUE, msg |-> "", dic |-> d] : d \in Dictionaries}
         \cup {[ok |-> FALSE, msg |-> CorruptFileDiagnostic]}
    ELSE {[ok |-> FALSE, msg |-> MissingFileDiagnostic]}

(***************************************************************************)
(* Tokenizer::new and Tokenizer::with_dictionary (lib.rs 130-185).         *)
(***************************************************************************)
TokenizerConfig(dictionary_path, config_path, resource_path, user_dictionary_path) ==
    [dictionary_path |-> dictionary_path,
     config_path |-> config_path,
     resource_path |-> resource_path,
     user_dictionary_path |-> user_dictionary_path]

Configs ==
    {TokenizerConfig(d, c, r, u) :
        d \in Paths,
        c \in {None} \cup {Some(p) : p \in Paths},
        r \in {None} \cup {Some(p) : p \in ResourceDirs},
        u \in {None} \cup {Some(p) : p \in UserDicts}}

OrElse(o, alt) == IF IsSome(o) THEN o ELSE alt
AndThenParent(o) == IF IsSome(o) THEN Parent(Unwrap(o)) ELSE None

\* lib.rs 148-151: the directory derived from config_path or dictionary_path.
DerivedFromDictionaryFirst(cfg) ==
    OrElse(Parent(cfg.dictionary_path), AndThenParent(cfg.config_path))

DerivedResourcePath(cfg) ==
    OrElse(AndThenParent(cfg.config_path), Parent(cfg.dictionary_path))

\* lib.rs 146-152
ResolveResourcePath(cfg) == OrElse(cfg.resource_path, DerivedResourcePath(cfg))

\* lib.rs 136-138 and 165-169: the error mappings of the constructor.
ConfigErrorAsLoadError(msg) == Err("DictionaryLoadError", msg)
MapConfigError(msg) == Err("ConfigError", msg)

LoadErrorWithoutMessage(msg) == Err("DictionaryLoadError", "")
MapLoadError(msg) == Err("DictionaryLoadError", msg)

EmptyBuilder ==
    [base |-> "empty", system_dict |-> None, resource_path |-> None, user_dict |-> None]

NewIdle ==
    /\ tokenizer = None
    /\ tpc = <<>> /\ targs = <<>> /\ session = <<>> /\ morphemes = <<>>
    /\ tret = <<>> /\ tcalls = <<>>
    /\ mcall = NoCall /\ mret = NoCall

InitNew ==
    /\ NewIdle
    /\ npc = "idle"
    /\ config = None
    /\ builder = None
    /\ nresult = NoReturn
    /\ libCalls = <<>>
    /\ dicExists \in BOOLEAN

\* Entry of Tokenizer::new (lib.rs 130).
EnterNew(cfg) ==
    /\ config' = Some(cfg)
    /\ npc' = "builder"
    /\ UNCHANGED <<builder, nresult, libCalls, dicExists, tokenizer, tokVars, metaVars>>

\* Tokenizer::with_dictionary (lib.rs 178-185): new() with every option None.
CallWithDictionary ==
    /\ npc = "idle"
    /\ \E dictionary_path \in Paths :
          EnterNew(TokenizerConfig(dictionary_path, None, None, None))

CallNew ==
    /\ npc = "idle"
    /\ \E cfg \in Configs : EnterNew(cfg)

\* lib.rs 134-140, Some(path): ConfigBuilder::from_file, `?` on its error.
StepFromFile ==
    /\ npc = "builder"
    /\ IsSome(Unwrap(config).config_path)
    /\ \E out \in FromFileOutcomes :
          /\ libCalls' = Append(libCalls, LibCall("from_file", out.ok, out.msg))
          /\ \/ /\ out.ok
                /\ builder' = Some([EmptyBuilder EXCEPT !.base = "file"])
                /\ npc' = "configure"
                /\ UNCHANGED nresult
             \/ /\ ~out.ok
                /\ nresult' = MapConfigError(out.msg)
                /\ npc' = "done"
                /\ UNCHANGED builder
    /\ UNCHANGED <<config, dicExists, tokenizer, tokVars, metaVars>>

\* lib.rs 139, None: ConfigBuilder::empty().
StepEmptyBuilder ==
    /\ npc = "builder"
    /\ ~IsSome(Unwrap(config).config_path)
    /\ builder' = Some(EmptyBuilder)
    /\ npc' = "configure"
    /\ UNCHANGED <<config, nresult, libCalls, dicExists, tokenizer, tokVars, metaVars>>

\* lib.rs 143-163: system_dict, resource_path when resolved, user_dict, build().
Configure(b, cfg) ==
    LET resource_path == ResolveResourcePath(cfg)
    IN  [b EXCEPT !.system_dict = Some(cfg.dictionary_path),
                  !.resource_path = IF IsSome(resource_path) THEN resource_path ELSE @,
                  !.user_dict = IF IsSome(cfg.user_dictionary_path)
                                THEN cfg.user_dictionary_path ELSE @]

StepConfigure ==
    /\ npc = "configure"
    /\ builder' = Some(Configure(Unwrap(builder), Unwrap(config)))
    /\ npc' = "from_cfg"
    /\ UNCHANGED <<config, nresult, libCalls, dicExists, tokenizer, tokVars, metaVars>>

\* lib.rs 165-173: JapaneseDictionary::from_cfg, `?` on its error, Ok(Arc<Self>).
StepFromCfg ==
    /\ npc = "from_cfg"
    /\ \E out \in FromCfgOutcomes(dicExists) :
          /\ libCalls' = Append(libCalls, LibCall("from_cfg", out.ok, out.msg))
          /\ \/ /\ out.ok
                /\ tokenizer' = Some([dictionary |-> out.dic])
                /\ nresult' = Ok("Tokenizer")
             \/ /\ ~out.ok
                /\ nresult' = MapLoadError(out.msg)
                /\ UNCHANGED tokenizer
    /\ npc' = "done"
    /\ UNCHANGED <<config, builder, dicExists, tokVars, metaVars>>

NextNew ==
    \/ CallNew
    \/ CallWithDictionary
    \/ StepFromFile
    \/ StepEmptyBuilder
    \/ StepConfigure
    \/ StepFromCfg

SpecNew == InitNew /\ [][NextNew]_vars

(***************************************************************************)
(* The analysis session (sudachi StatefulTokenizer) as tokenize drives it. *)
(* Its outcome is a function of the dictionary and of the session's own    *)
(* input buffer and mode.                                                  *)
(***************************************************************************)
TokenizeMode == {"A", "B", "C"}

\* impl From<TokenizeMode> for SudachiMode (lib.rs 67-75)
SudachiModeFrom(mode) ==
    CASE mode = "A" -> "SudachiA"
      [] mode = "B" -> "SudachiB"
      [] mode = "C" -> "SudachiC"

NoSession == [mode |-> "none", input |-> <<>>, path |-> <<>>]

StatefulTokenizerNew(mode) == [mode |-> mode, input |-> <<>>, path |-> <<>>]

HasUnknown(dict, input) == \E i \in 1..Len(input) : input[i] \notin dict.vocab

\* Unit length of a mode: A splits into bytes, B into pairs, C not at all.
UnitOf(mode, n) ==
    CASE mode = "SudachiB" -> 2
      [] mode = "SudachiC" -> n
      [] OTHER -> 1

Min(a, b) == IF a <= b THEN a ELSE b

Lattice(input, mode) ==
    LET n == Len(input)
        u == UnitOf(mode, n)
    IN  IF n = 0 THEN <<>>
        ELSE [i \in 1..((n + u - 1) \div u) |->
                [begin |-> (i - 1) * u, end |-> Min(i * u, n)]]

RunDiagnostic == "analysis: unknown-word fault"
ListDiagnostic == "morpheme list: unknown-word fault"

\* StatefulTokenizer::do_tokenize
LibDoTokenize(dict, s) ==
    IF dict.onUnknown = "run_fault" /\ HasUnknown(dict, s.input)
    THEN [ok |-> FALSE, msg |-> RunDiagnostic, path |-> <<>>]
    ELSE [ok |-> TRUE, msg |-> "", path |-> Lattice(s.input, s.mode)]

RawMorpheme(dict, input, node) ==
    LET surface == SubSeq(input, node.begin + 1, node.end)
        oov == HasUnknown(dict, surface)
    IN  [surface |-> surface,
         part_of_speech |-> IF oov THEN <<"unknown">> ELSE <<"noun", "common">>,
         dictionary_form |-> surface,
         normalized_form |-> surface,
         reading_form |-> surface,
         is_oov |-> oov,
         word |-> IF oov THEN dict.oovWord ELSE Len(surface) % U32Modulus,
         begin |-> node.begin,
         end |-> node.end]

\* StatefulTokenizer::into_morpheme_list
LibIntoMorphemeList(dict, s) ==
    IF dict.onUnknown = "list_fault" /\ HasUnknown(dict, s.input)
    THEN [ok |-> FALSE, msg |-> ListDiagnostic, list |-> <<>>]
    ELSE [ok |-> TRUE, msg |-> "",
          list |-> [i \in 1..Len(s.path) |-> RawMorpheme(dict, s.input, s.path[i])]]

(***************************************************************************)
(* Tokenizer::tokenize (lib.rs 188-225).                                   *)
(***************************************************************************)
\* `as u32` on a usize and `as i32` on a u32: both keep the low bits.
AsU32(n) == n % U32Modulus
AsI32(w) == IF w >= U32Modulus \div 2 THEN w - U32Modulus ELSE w

\* lib.rs 211-221
MorphemeInfo(m) ==
    [surface |-> m.surface,
     part_of_speech |-> m.part_of_speech,
     dictionary_form |-> m.dictionary_form,
     normalized_form |-> m.normalized_form,
     reading_form |-> m.reading_form,
     is_oov |-> m.is_oov,
     word_id |-> AsI32(m.word),
     begin |-> AsU32(m.begin),
     end |-> AsU32(m.end)]

\* lib.rs 198-200 and 205-207
TokenizeErrorWithoutMessage(msg) == Err("TokenizeError", "")
MapTokenizeError(msg) == Err("TokenizeError", msg)

Threads == {"t1", "t2"}

\* lib.rs 193: the session is a local of the call, one per running call.
SharedSession(t) == "t1"
SessionOf(t) == t

RECURSIVE TextsOver(_)
TextsOver(n) ==
    IF n = 0 THEN {<<>>}
    ELSE TextsOver(n - 1) \cup {Append(x, c) : x \in TextsOver(n - 1), c \in Alphabet}

Texts == TextsOver(MaxTextLen) \cup {[i \in 1..n |-> "a"] : n \in 0..MaxLongLen}

NoArgs == [text |-> <<>>, mode |-> "none"]

TokIdle ==
    /\ npc = "done" /\ config = None /\ builder = None /\ nresult = Ok("Tokenizer")
    /\ libCalls = <<>> /\ dicExists = TRUE
    /\ mcall = NoCall /\ mret = NoCall

InitTok ==
    /\ TokIdle
    /\ tokenizer \in {Some([dictionary |-> d]) : d \in Dictionaries}
    /\ tpc = [t \in Threads |-> "idle"]
    /\ targs = [t \in Threads |-> NoArgs]
    /\ session = [t \in Threads |-> NoSession]
    /\ morphemes = [t \in Threads |-> <<>>]
    /\ tret = [t \in Threads |-> NoReturn]
    /\ tcalls = [t \in Threads |-> <<>>]

Dictionary == Unwrap(tokenizer).dictionary

\* Entry of tokenize (lib.rs 188-192).
TokCall(t) ==
    /\ tpc[t] = "idle"
    /\ \E text \in Texts, mode \in TokenizeMode :
          targs' = [targs EXCEPT ![t] = [text |-> text, mode |-> mode]]
    /\ tpc' = [tpc EXCEPT ![t] = "new"]
    /\ UNCHANGED <<newVars, tokenizer, session, morphemes, tret, tcalls, metaVars>>

\* lib.rs 193: StatefulTokenizer::new(&*self.dictionary, mode.into())
TokNew(t) ==
    /\ tpc[t] = "new"
    /\ session' = [session EXCEPT
          ![SessionOf(t)] = StatefulTokenizerNew(SudachiModeFrom(targs[t].mode))]
    /\ tpc' = [tpc EXCEPT ![t] = "push"]
    /\ UNCHANGED <<newVars, tokenizer, targs, morphemes, tret, tcalls, metaVars>>

\* lib.rs 195: tokenizer.reset().push_str(&text)
TokPush(t) ==
    /\ tpc[t] = "push"
    /\ session' = [session EXCEPT
          ![SessionOf(t)] = [@ EXCEPT !.input = <<>> \o targs[t].text, !.path = <<>>]]
    /\ tpc' = [tpc EXCEPT ![t] = "run"]
    /\ UNCHANGED <<newVars, tokenizer, targs, morphemes, tret, tcalls, metaVars>>

\* lib.rs 196-200: do_tokenize, `?` on its error.
TokRun(t) ==
    /\ tpc[t] = "run"
    /\ LET out == LibDoTokenize(Dictionary, session[SessionOf(t)])
       IN  /\ tcalls' = [tcalls EXCEPT ![t] = Append(@, LibCall("do_tokenize", out.ok, out.msg))]
           /\ \/ /\ out.ok
                 /\ session' = [session EXCEPT ![SessionOf(t)] = [@ EXCEPT !.path = out.path]]
                 /\ tpc' = [tpc EXCEPT ![t] = "list"]
                 /\ UNCHANGED tret
              \/ /\ ~out.ok
                 /\ session' = [session EXCEPT ![SessionOf(t)] = NoSession]
                 /\ tret' = [tret EXCEPT ![t] = MapTokenizeError(out.msg)]
                 /\ tpc' = [tpc EXCEPT ![t] = "done"]
    /\ UNCHANGED <<newVars, tokenizer, targs, morphemes, metaVars>>

\* lib.rs 202-207: into_morpheme_list consumes the session, `?` on its error.
TokList(t) ==
    /\ tpc[t] = "list"
    /\ LET out == LibIntoMorphemeList(Dictionary, session[SessionOf(t)])
       IN  /\ tcalls' = [tcalls EXCEPT ![t] = Append(@, LibCall("into_morpheme_list", out.ok, out.msg))]
           /\ \/ /\ out.ok
                 /\ morphemes' = [morphemes EXCEPT ![t] = out.list]
                 /\ tpc' = [tpc EXCEPT ![t] = "project"]
                 /\ UNCHANGED tret
              \/ /\ ~out.ok
                 /\ tret' = [tret EXCEPT ![t] = MapTokenizeError(out.msg)]
                 /\ tpc' = [tpc EXCEPT ![t] = "done"]
                 /\ UNCHANGED morphemes
    /\ session' = [session EXCEPT ![SessionOf(t)] = NoSession]
    /\ UNCHANGED <<newVars, tokenizer, targs, metaVars>>

\* lib.rs 209-224: map every morpheme to a MorphemeInfo, Ok(results).
TokProject(t) ==
    /\ tpc[t] = "project"
    /\ tret' = [tret EXCEPT ![t] =
          Ok([i \in 1..Len(morphemes[t]) |-> MorphemeInfo(morphemes[t][i])])]
    /\ tpc' = [tpc EXCEPT ![t] = "done"]
    /\ UNCHANGED <<newVars, tokenizer, targs, session, morphemes, tcalls, metaVars>>

\* The caller takes the result; the call's locals are gone.
TokReturn(t) ==
    /\ tpc[t] = "done"
    /\ tpc' = [tpc EXCEPT ![t] = "idle"]
    /\ targs' = [targs EXCEPT ![t] = NoArgs]
    /\ morphemes' = [morphemes EXCEPT ![t] = <<>>]
    /\ tret' = [tret EXCEPT ![t] = NoReturn]
    /\ tcalls' = [tcalls EXCEPT ![t] = <<>>]
    /\ UNCHANGED <<newVars, tokenizer, session, metaVars>>

NextTok ==
    \E t \in Threads :
        \/ TokCall(t)
        \/ TokNew(t)
        \/ TokPush(t)
        \/ TokRun(t)
        \/ TokList(t)
        \/ TokProject(t)
        \/ TokReturn(t)

SpecTok == InitTok /\ [][NextTok]_vars

(***************************************************************************)
(* Properties.                                                             *)
(***************************************************************************)
IsErr(r, kind) == ~r.ok /\ r.kind = kind

Configured == IsSome(builder) /\ IsSome(Unwrap(builder).system_dict)

FailedCalls(calls, fn) == {i \in 1..Len(calls) : calls[i].fn = fn /\ ~calls[i].ok}
CallsOf(calls, fn) == {i \in 1..Len(calls) : calls[i].fn = fn}

\* C1: once Tokenizer::new has configured its builder, the resource path it
\* handed over is the explicit resource_path if given, else the parent of
\* config_path if one was given and has a parent, else the parent of
\* dictionary_path, else nothing; /a/b/d.dic alone gives /a/b, and
\* /x/y/cfg.json without an explicit resource_path gives /x/y.
C1_ResourcePathPriority ==
    Configured =>
        LET c == Unwrap(config)
            handed == Unwrap(builder).resource_path
        IN  /\ IF c.resource_path # None
               THEN handed = c.resource_path
               ELSE IF c.config_path # None /\ Parent(Unwrap(c.config_path)) # None
               THEN handed = Parent(Unwrap(c.config_path))
               ELSE IF Parent(c.dictionary_path) # None
               THEN handed = Parent(c.dictionary_path)
               ELSE handed = None
            /\ (c.resource_path = None /\ c.config_path = None
                    /\ c.dictionary_path = DicPathAB)
                  => handed = Some(DirAB)
            /\ (c.resource_path = None /\ c.config_path = Some(CfgPathXY))
                  => handed = Some(DirXY)

C1_Witness ==
    /\ Configured
    /\ Unwrap(config).resource_path = None
    /\ Unwrap(config).config_path = Some(CfgPathXY)
    /\ Unwrap(config).dictionary_path = DicPathAB
    /\ Unwrap(builder).resource_path = Some(DirXY)

\* C2: a failed read or parse of the given config file ends Tokenizer::new
\* with ConfigError carrying that failure's message, with no dictionary load
\* attempted and no Tokenizer; without a config_path, new never returns
\* ConfigError.
C2_ConfigErrorFirst ==
    /\ \A i \in FailedCalls(libCalls, "from_file") :
          /\ npc = "done"
          /\ nresult = Err("ConfigError", libCalls[i].msg)
          /\ CallsOf(libCalls, "from_cfg") = {}
          /\ tokenizer = None
    /\ (IsSome(config) /\ Unwrap(config).config_path = None)
          => ~IsErr(nresult, "ConfigError")

C2_Witness ==
    /\ npc = "done"
    /\ IsSome(Unwrap(config).config_path)
    /\ libCalls = <<LibCall("from_file", FALSE, "json: syntax error")>>
    /\ nresult = Err("ConfigError", "json: syntax error")

\* C3 as stated: every finished construction over a missing dictionary file
\* is a DictionaryLoadError with the library's non-empty diagnostic, and no
\* Tokenizer.
C3_MissingDictionaryAlwaysLoadError ==
    (npc = "done" /\ ~dicExists) =>
        /\ nresult = Err("DictionaryLoadError", MissingFileDiagnostic)
        /\ nresult.message # ""
        /\ tokenizer = None

\* C3 amended: over a missing dictionary file no Tokenizer is produced, and
\* unless reading a given config file failed first (then: ConfigError), the
\* result is DictionaryLoadError with the library's non-empty diagnostic;
\* every failed dictionary load is returned as DictionaryLoadError with its
\* message.
C3_MissingDictionaryLoadError ==
    /\ (npc = "done" /\ ~dicExists) =>
          /\ tokenizer = None
          /\ ~nresult.ok
          /\ IF FailedCalls(libCalls, "from_file") # {}
             THEN IsErr(nresult, "ConfigError")
             ELSE /\ nresult = Err("DictionaryLoadError", MissingFileDiagnostic)
                  /\ nresult.message # ""
    /\ \A i \in FailedCalls(libCalls, "from_cfg") :
          /\ nresult = Err("DictionaryLoadError", libCalls[i].msg)
          /\ tokenizer = None

C3_Witness ==
    /\ npc = "done"
    /\ ~dicExists
    /\ Unwrap(config).config_path = None
    /\ libCalls = <<LibCall("from_cfg", FALSE, MissingFileDiagnostic)>>
    /\ nresult = Err("DictionaryLoadError", MissingFileDiagnostic)

\* What one tokenize call returns as a function of dictionary, text, mode.
TokenizeOutcome(dict, text, mode) ==
    LET s == [mode |-> SudachiModeFrom(mode), input |-> text, path |-> <<>>]
        run == LibDoTokenize(dict, s)
        lst == LibIntoMorphemeList(dict, [s EXCEPT !.path = run.path])
    IN  IF ~run.ok THEN Err("TokenizeError", run.msg)
        ELSE IF ~lst.ok THEN Err("TokenizeError", lst.msg)
        ELSE Ok([i \in 1..Len(lst.list) |-> MorphemeInfo(lst.list[i])])

Done(t) == tpc[t] = "done"

\* C4: whatever the interleaving and whatever calls came before, a finished
\* tokenize call returns the value determined by the dictionary, its text and
\* its mode alone, so two finished calls with the same text and mode hold
\* identical results.
C4_TokenizeDeterministic ==
    /\ \A t \in Threads :
          Done(t) => tret[t] = TokenizeOutcome(Dictionary, targs[t].text, targs[t].mode)
    /\ \A t1, t2 \in Threads :
          (Done(t1) /\ Done(t2) /\ targs[t1] = targs[t2]) => tret[t1] = tret[t2]

C4_Witness ==
    /\ Done("t1") /\ Done("t2")
    /\ targs["t1"] = targs["t2"]
    /\ targs["t1"].text = <<"a", "z">>
    /\ tret["t1"].ok
    /\ Len(tret["t1"].value) = 2
    /\ tret["t2"] = tret["t1"]

\* C5: a library failure in either stage ends the call at once with
\* TokenizeError carrying that failure's message (so after a failed run the
\* morpheme list is never asked for, and no sequence is returned), nothing is
\* returned before the call is done, and a failed tokenize is never a
\* ConfigError or DictionaryLoadError.
C5_TokenizeErrorOnly ==
    \A t \in Threads :
        /\ \A i \in 1..Len(tcalls[t]) :
              ~tcalls[t][i].ok =>
                  /\ i = Len(tcalls[t])
                  /\ Done(t)
                  /\ tret[t] = Err("TokenizeError", tcalls[t][i].msg)
        /\ ~Done(t) => tret[t] = NoReturn
        /\ (Done(t) /\ ~tret[t].ok) =>
              /\ tret[t].kind = "TokenizeError"
              /\ ~tcalls[t][Len(tcalls[t])].ok

C5_Witness ==
    /\ Done("t1")
    /\ tcalls["t1"] = <<LibCall("do_tokenize", TRUE, ""),
                        LibCall("into_morpheme_list", FALSE, ListDiagnostic)>>
    /\ tret["t1"] = Err("TokenizeError", ListDiagnostic)

ExpectedToken(dict_type) ==
    IF dict_type = "Small" THEN "small" ELSE IF dict_type = "Core" THEN "core" ELSE "full"

ExpectedUrl(dict_type, version) ==
    "https://d2ej7fkh96fzlu.cloudfront.net/sudachidict/sudachi-dictionary-"
        \o (IF version = None THEN "latest" ELSE version[1])
        \o "-" \o ExpectedToken(dict_type) \o ".zip"

\* C6: get_dictionary_download_url returns exactly
\* BASE/sudachi-dictionary-{version or latest}-{small|core|full}.zip, and
\* get_dictionary_info has dic_filename system_{token}.dic, name {token} and
\* that same URL as download_url.
C6_DownloadUrlFormat ==
    /\ mret.fn = "get_dictionary_download_url" =>
          /\ mret.value = ExpectedUrl(mcall.dict_type, mcall.version)
          /\ (mcall.dict_type = "Core" /\ mcall.version = None) => mret.value =
                "https://d2ej7fkh96fzlu.cloudfront.net/sudachidict/sudachi-dictionary-latest-core.zip"
          /\ (mcall.dict_type = "Full" /\ mcall.version = Some("20241021")) => mret.value =
                "https://d2ej7fkh96fzlu.cloudfront.net/sudachidict/sudachi-dictionary-20241021-full.zip"
    /\ mret.fn = "get_dictionary_info" =>
          /\ mret.value.dic_filename = "system_" \o ExpectedToken(mcall.dict_type) \o ".dic"
          /\ mret.value.name = ExpectedToken(mcall.dict_type)
          /\ mret.value.download_url = ExpectedUrl(mcall.dict_type, mcall.version)

C6_Witness ==
    /\ mret.fn = "get_dictionary_download_url"
    /\ mcall.dict_type = "Full"
    /\ mcall.version = Some("20241021")
    /\ mret.value =
          "https://d2ej7fkh96fzlu.cloudfront.net/sudachidict/sudachi-dictionary-20241021-full.zip"

SizeOrder == <<"Small", "Core", "Full">>

\* C7: get_all_dictionary_info(v) returns exactly three entries, for Small,
\* Core and Full in that order, each equal in every field to
\* get_dictionary_info of that size and the same v.
C7_AllInfoInOrder ==
    mret.fn = "get_all_dictionary_info" =>
        /\ Len(mret.value) = 3
        /\ \A i \in 1..3 :
              /\ mret.value[i] = get_dictionary_info(SizeOrder[i], mcall.version)
              /\ mret.value[i].name = ExpectedToken(SizeOrder[i])
              /\ mret.value[i].download_url = ExpectedUrl(SizeOrder[i], mcall.version)

C7_Witness ==
    /\ mret.fn = "get_all_dictionary_info"
    /\ mcall.version = Some("20")
    /\ Len(mret.value) = 3
    /\ mret.value[3].download_url =
          "https://d2ej7fkh96fzlu.cloudfront.net/sudachidict/sudachi-dictionary-20-full.zip"

\* C8: in every returned morpheme record, an out-of-vocabulary morpheme has
\* word_id -1.
C8_OovWordIdMinusOne ==
    \A t \in Threads :
        (Done(t) /\ tret[t].ok) =>
            \A i \in 1..Len(tret[t].value) :
                tret[t].value[i].is_oov => tret[t].value[i].word_id = -1

=============================================================================
